---------------------------- MODULE Spec2Model ----------------------------
(***************************************************************************)
(* State-machine model of telegram_forwarder.py: the Relay (main, the      *)
(* TelegramForwarder start-up, the forward handler, run_forever) and the   *)
(* Query Service (verify_api_key, /health, /api/messages/{hours} and       *)
(* /api/messages/{hours}/combined) running in one process.                 *)
(*                                                                         *)
(* Text is a sequence of one-character strings, so that strip(), join()    *)
(* and str() are computed rather than assumed.  Time is counted in whole   *)
(* hours.  The Telegram client library and the HTTP framework are outside  *)
(* the repository; their calls are modelled by their documented            *)
(* behaviour, with every outcome that can fail drawn nondeterministically. *)
(***************************************************************************)
EXTENDS Integers, Sequences, FiniteSets, TLC

(***************************************************************************)
(* Bounds of the model.                                                    *)
(***************************************************************************)
\* events the platform delivers in one run
MaxEvents == 2
\* hours the clock may advance after process start
MaxTicks == 1
\* largest window (hours) a request asks for while the Relay runs (Spec)
MaxHours == 1
\* largest window (hours) a request asks for in QuerySpec
MaxWindow == 2
\* messages of a short target-channel history in QuerySpec
MaxHistory == 2
\* long histories of QuerySpec hold Limit - 1 .. Limit + MaxExtra messages
MaxExtra == 2
\* the clock reading at process start: late enough for every window
StartTime == MaxWindow + 1

(***************************************************************************)
(* Program constants.                                                      *)
(***************************************************************************)
\* limit=200 of the history read
Limit == 200
\* [3:] of the link's channel id
PrefixLen == 3
\* the "no key" default of N8N_API_KEY
DefaultKey == "default-change-this-key"

None == "None"

(***************************************************************************)
(* Text helpers: Python's str.strip, str(int), str.join.                   *)
(***************************************************************************)
Whitespace == {" ", "\n", "\t"}

RECURSIVE LStrip(_)
LStrip(s) ==
    IF s = <<>> THEN <<>>
    ELSE IF Head(s) \in Whitespace THEN LStrip(Tail(s)) ELSE s

RECURSIVE RStrip(_)
RStrip(s) ==
    IF s = <<>> THEN <<>>
    ELSE IF s[Len(s)] \in Whitespace THEN RStrip(SubSeq(s, 1, Len(s) - 1)) ELSE s

\* str.strip()
Strip(s) == RStrip(LStrip(s))

Digits == <<"0", "1", "2", "3", "4", "5", "6", "7", "8", "9">>

RECURSIVE NatToStr(_)
NatToStr(n) ==
    IF n < 10 THEN <<Digits[n + 1]>>
    ELSE NatToStr(n \div 10) \o <<Digits[(n % 10) + 1]>>

\* str(n) of an int
IntToStr(n) == IF n < 0 THEN <<"-">> \o NatToStr(0 - n) ELSE NatToStr(n)

Abs(n) == IF n < 0 THEN 0 - n ELSE n

\* s[k:] of a string
DropFirst(s, k) == IF Len(s) <= k THEN <<>> ELSE SubSeq(s, k + 1, Len(s))

\* '\n\n---\n\n'
Separator == <<"\n", "\n", "-", "-", "-", "\n", "\n">>

\* join() that leaves the separator out
Join_NoSeparator(sep, parts) ==
    LET RECURSIVE Concat(_)
        Concat(ps) ==
            IF ps = <<>> THEN <<>>
            ELSE IF Len(ps) = 1 THEN ps[1]
            ELSE Concat(SubSeq(ps, 1, Len(ps) \div 2))
                   \o Concat(SubSeq(ps, Len(ps) \div 2 + 1, Len(ps)))
    IN  Concat(parts)

RECURSIVE Join(_, _)
\* sep.join(parts), halving the list
Join(sep, parts) ==
    IF parts = <<>> THEN <<>>
    ELSE IF Len(parts) = 1 THEN parts[1]
    ELSE LET h == Len(parts) \div 2
         IN  Join(sep, SubSeq(parts, 1, h)) \o sep
               \o Join(sep, SubSeq(parts, h + 1, Len(parts)))

\* "https://t.me/c/"
LinkPrefix ==
    <<"h", "t", "t", "p", "s", ":", "/", "/", "t", ".", "m", "e", "/", "c", "/">>

\* "\n<link emoji> Source: "; the emoji is the one element "[link]"
SourceTag ==
    <<"\n", "[link]", " ", "S", "o", "u", "r", "c", "e", ":", " ">>

\* datetime.isoformat(): a rendering of the instant, tagged so that it is
\* not the integer itself
IsoFormat(t) == <<"iso", IntToStr(t)>>


(***************************************************************************)
(* The state.                                                              *)
(***************************************************************************)
VARIABLES
    pc,                 \* where main() stands; "exited" once the process is gone
    envKey,             \* the N8N_API_KEY environment variable, None when unset
    serverUp,           \* the uvicorn thread is serving
    telegram_client,    \* the global: None or "client"
    connected,          \* telegram_client.is_connected()
    authorized,         \* is_user_authorized() answered True
    authAttempts,       \* calls of client.start()
    source_entity,      \* self.source_entity: None or "source"
    target_entity,      \* self.target_entity: NoId or <<the entity's id>>
    target_channel_id,  \* the global: NoId (None) or <<id>>
    startResult,        \* what forwarder.start() returned: None, "True", "False"
    handlerRegistered,  \* forward_handler is registered on the client
    delivered,          \* the chat of each event delivered so far, in order
    attempts,           \* forward attempts made for each delivered event
    forwarded,          \* events whose forward succeeded
    failLog,            \* events whose forward failure was logged
    history,            \* the target channel's messages, newest first
    now,                \* the clock
    resp                \* the last HTTP response, with its request

vars ==
    <<pc, envKey, serverUp, telegram_client, connected, authorized,
      authAttempts, source_entity, target_entity, target_channel_id,
      startResult, handlerRegistered, delivered, attempts, forwarded, failLog,
      history, now, resp>>

relayVars ==
    <<pc, envKey, serverUp, telegram_client, connected, authorized,
      authAttempts, source_entity, target_entity, target_channel_id,
      startResult, handlerRegistered>>

eventVars == <<delivered, attempts, forwarded, failLog>>

(***************************************************************************)
(* Inputs.                                                                 *)
(***************************************************************************)
\* message texts: plain, padded, holding the separator, blank, empty
TextA == <<"a">>
TextB == <<"b">>
TextPadded == <<" ", "a", "\n">>
TextWithSeparator == <<"a">> \o Separator \o <<"b">>
TextBlank == <<" ", "\n">>
TextEmpty == <<>>

\* a message of the platform; hasText is FALSE for message.text = None
Message(id, date, hasText, text) ==
    [id |-> id, date |-> date, hasText |-> hasText, text |-> text]

\* (hasText, text) pairs a message can carry
Contents ==
    {<<TRUE, TextA>>, <<TRUE, TextPadded>>, <<TRUE, TextWithSeparator>>,
     <<TRUE, TextBlank>>, <<FALSE, TextEmpty>>}

\* an id not set (None), and an id set
NoId == <<>>
SomeId(id) == <<id>>

\* ids an entity can have (entity.id, the bare positive id), within the
\* 32 bits of TLC's integers
TargetIds == {17, 265919308}

\* window sizes a request asks for
Hours == 1..MaxHours

\* the x-api-key header of a request; None when the header is absent
Headers == {None, DefaultKey, "secret"}

\* the key requests are compared with (line 37)
N8N_API_KEY == IF envKey = None THEN DefaultKey ELSE envKey

(***************************************************************************)
(* The history read and the response shaping.                              *)
(***************************************************************************)
\* the first n elements of s
Take(s, n) == IF Len(s) <= n THEN s ELSE SubSeq(s, 1, n)

\* telegram_client.iter_messages(channel, offset_date, reverse=False, limit):
\* with reverse=False the library walks back from offset_date, newest
\* first: it yields the messages sent before offset_date, at most limit
iter_messages(hist, offset_date, limit) ==
    Take(SelectSeq(hist, LAMBDA m : m.date < offset_date), limit)

\* the test without its strip(): whitespace-only text passes
HasVisibleText_Unstripped(m) == m.hasText /\ m.text # <<>>

\* message.text and message.text.strip()
HasVisibleText(m) == m.hasText /\ m.text # <<>> /\ Strip(m.text) # <<>>

\* str(abs(target_channel_id))[3:]
ChannelIdForLink(cid) == DropFirst(IntToStr(Abs(cid)), PrefixLen)

\* f"https://t.me/c/{channel_id_for_link}/{message.id}"
MessageLink(cid, mid) ==
    LinkPrefix \o ChannelIdForLink(cid) \o <<"/">> \o IntToStr(mid)

\* the dict appended for one message
Entry(m, cid) ==
    [message_id |-> m.id,
     text |-> Strip(m.text),
     date |-> m.date,
     readable_date |-> IsoFormat(m.date),
     link |-> MessageLink(cid, m.id),
     text_with_link |-> Strip(m.text) \o SourceTag \o MessageLink(cid, m.id)]

\* the loop over the messages read: one entry for each message with text,
\* in the order read
Entries(msgs, cid) ==
    LET kept == SelectSeq(msgs, HasVisibleText)
    IN  [i \in 1..Len(kept) |-> Entry(kept[i], cid)]

RECURSIVE SortBuckets(_, _)
\* the entries of the latest date of dates, in their order, then the rest
SortBuckets(entries, dates) ==
    IF dates = {} THEN <<>>
    ELSE LET d == CHOOSE x \in dates : \A y \in dates : y <= x
         IN  SelectSeq(entries, LAMBDA e : e.date = d)
               \o SortBuckets(entries, dates \ {d})

\* the sort left out: the entries stay in the order read
SortByDateDesc_Unsorted(entries) == entries

\* messages.sort(key=lambda x: x['date'], reverse=True): a stable sort, so
\* entries of one date keep their order
SortByDateDesc(entries) ==
    SortBuckets(entries, {entries[i].date : i \in 1..Len(entries)})

\* the keys of the three success bodies
HealthKeys == {"status", "timestamp", "telegram_connected"}
ItemizedKeys ==
    {"success", "messages", "message_count", "hours_requested",
     "time_threshold", "channel_id"}
CombinedKeys ==
    {"success", "combined_text", "message_count", "messages", "processing_date"}

\* a response body with nothing in it; keys are the keys a success body
\* carries, the other fields their values where the body has them
NoBody ==
    [success |-> FALSE, messages |-> <<>>, message_count |-> 0,
     combined_text |-> <<>>, time_threshold |-> <<>>, channel_id |-> <<>>,
     status |-> "", telegram_connected |-> FALSE, keys |-> {}]

\* what a handler hands back: the HTTP status, the detail of an error,
\* the body of a success, and the history reads it made
Outcome(status, detail, body, reads) ==
    [status |-> status, detail |-> detail, body |-> body, reads |-> reads]

\* raise HTTPException(status_code, detail)
HTTPException(status, detail, reads) == Outcome(status, detail, NoBody, reads)


(***************************************************************************)
(* The Query Service.                                                      *)
(***************************************************************************)
\* verify_api_key as the framework runs it: the header is declared
\* Header(...), a required parameter, so a request without it is refused
\* by validation (422) before the function body; the body answers 401 on a
\* value other than N8N_API_KEY.  200 stands for "return True".
verify_api_key(x_api_key) ==
    IF x_api_key = None THEN 422
    ELSE IF x_api_key # N8N_API_KEY THEN 401
    ELSE 200

\* the detail of verify_api_key's refusals
AuthDetail(status) ==
    IF status = 401 THEN "Invalid API key" ELSE "Field required"

\* not target_channel_id: None, or an id of 0
TargetUnset == target_channel_id = NoId \/ target_channel_id = SomeId(0)

\* get_recent_messages reading a second time when the first read raises,
\* and answering with what the second read gives
get_recent_messages_Rereading(hours, readOk) ==
    IF telegram_client = None \/ ~connected
    THEN HTTPException(503, "Telegram client not connected", 0)
    ELSE IF TargetUnset
    THEN HTTPException(503, "Target channel not configured", 0)
    ELSE
      LET time_threshold == now - hours
          cid == target_channel_id[1]
          read == iter_messages(history, time_threshold, Limit)
          messages == SortByDateDesc(Entries(read, cid))
      IN  Outcome(200, "",
            [NoBody EXCEPT !.success = TRUE,
                           !.messages = messages,
                           !.message_count = Len(messages),
                           !.time_threshold = IsoFormat(time_threshold),
                           !.channel_id = IntToStr(cid),
                           !.keys = ItemizedKeys],
            IF readOk THEN 1 ELSE 2)

\* the body of get_recent_messages; readOk is whether the history read
\* completes without raising
get_recent_messages(hours, readOk) ==
    IF telegram_client = None \/ ~connected
    THEN HTTPException(503, "Telegram client not connected", 0)
    ELSE IF TargetUnset
    THEN HTTPException(503, "Target channel not configured", 0)
    ELSE IF ~readOk
    THEN HTTPException(500, "Error fetching messages", 1)
    ELSE
      LET time_threshold == now - hours
          cid == target_channel_id[1]
          read == iter_messages(history, time_threshold, Limit)
          messages == SortByDateDesc(Entries(read, cid))
      IN  Outcome(200, "",
            [NoBody EXCEPT !.success = TRUE,
                           !.messages = messages,
                           !.message_count = Len(messages),
                           !.time_threshold = IsoFormat(time_threshold),
                           !.channel_id = IntToStr(cid),
                           !.keys = ItemizedKeys],
            1)

\* [msg['text_with_link'] for msg in result['messages']]
TextsWithLink(messages) ==
    [i \in 1..Len(messages) |-> messages[i].text_with_link]

\* get_combined_messages answering an empty success when the inner call
\* fails, instead of failing with it
get_combined_messages_SwallowingFailure(hours, readOk) ==
    LET result == get_recent_messages(hours, readOk)
    IN  Outcome(200, "",
          [NoBody EXCEPT !.success = TRUE,
                         !.combined_text =
                             Join(Separator, TextsWithLink(result.body.messages)),
                         !.message_count = result.body.message_count,
                         !.messages = result.body.messages,
                         !.keys = CombinedKeys],
          result.reads)

\* the body of get_combined_messages: every exception of the inner call,
\* its HTTPException included, is caught by "except Exception"
get_combined_messages(hours, readOk) ==
    LET result == get_recent_messages(hours, readOk)
    IN  IF result.status # 200
        THEN HTTPException(500, "Error creating combined messages", result.reads)
        ELSE Outcome(200, "",
               [NoBody EXCEPT !.success = TRUE,
                              !.combined_text =
                                  Join(Separator, TextsWithLink(result.body.messages)),
                              !.message_count = result.body.message_count,
                              !.messages = result.body.messages,
                              !.keys = CombinedKeys],
               result.reads)

\* the body of health_check
health_check ==
    Outcome(200, "",
      [NoBody EXCEPT !.status = "healthy",
                     !.telegram_connected = (telegram_client # None /\ connected),
                     !.keys = HealthKeys],
      0)

\* a request and its answer
Response(endpoint, x_api_key, hours, outcome) ==
    [endpoint |-> endpoint, x_api_key |-> x_api_key, hours |-> hours,
     status |-> outcome.status, detail |-> outcome.detail,
     body |-> outcome.body, reads |-> outcome.reads]

NoResponse == Response("none", None, 0, Outcome(0, "", NoBody, 0))

\* a protected route: the dependency first, the handler only if it passed
Protected(endpoint, x_api_key, hours, outcome) ==
    LET auth == verify_api_key(x_api_key)
    IN  IF auth # 200
        THEN Response(endpoint, x_api_key, hours,
                      HTTPException(auth, AuthDetail(auth), 0))
        ELSE Response(endpoint, x_api_key, hours, outcome)

\* GET /health
GetHealth ==
    /\ serverUp
    /\ resp' = Response("health", None, 0, health_check)
    /\ UNCHANGED <<relayVars, eventVars, history, now>>

\* the route dropping the session when the history read raises
GetMessages_DroppingSession(x_api_key, hours, readOk) ==
    /\ serverUp
    /\ resp' = Protected("messages", x_api_key, hours,
                         get_recent_messages(hours, readOk))
    /\ connected' = (connected /\ resp'.status # 500)
    /\ UNCHANGED <<pc, envKey, serverUp, telegram_client, authorized,
                   authAttempts, source_entity, target_entity, target_channel_id,
                   startResult, handlerRegistered, eventVars, history, now>>

\* GET /api/messages/{hours}
GetMessages(x_api_key, hours, readOk) ==
    /\ serverUp
    /\ resp' = Protected("messages", x_api_key, hours,
                         get_recent_messages(hours, readOk))
    /\ UNCHANGED <<relayVars, eventVars, history, now>>

\* GET /api/messages/{hours}/combined
GetCombined(x_api_key, hours, readOk) ==
    /\ serverUp
    /\ resp' = Protected("combined", x_api_key, hours,
                         get_combined_messages(hours, readOk))
    /\ UNCHANGED <<relayVars, eventVars, history, now>>


(***************************************************************************)
(* The Relay: main() and TelegramForwarder, one action per step between    *)
(* two points where the other thread or the platform can act.              *)
(***************************************************************************)
\* main() returns: asyncio.run ends, the interpreter exits and takes the
\* daemon thread of the HTTP server with it
ProcessExit ==
    /\ pc' = "exited"
    /\ serverUp' = FALSE

\* main, the required environment variables: missing ones end main at once
ValidateEnvironment(missing) ==
    /\ pc = "validate"
    /\ IF missing THEN ProcessExit
       ELSE pc' = "startApi" /\ UNCHANGED serverUp
    /\ UNCHANGED <<envKey, telegram_client, connected, authorized, authAttempts,
                   source_entity, target_entity, target_channel_id, startResult,
                   handlerRegistered, eventVars, history, now, resp>>

\* main: api_thread.start() of run_fastapi_server, a daemon thread
run_fastapi_server ==
    /\ pc = "startApi"
    /\ serverUp' = TRUE
    /\ pc' = "construct"
    /\ UNCHANGED <<envKey, telegram_client, connected, authorized, authAttempts,
                   source_entity, target_entity, target_channel_id, startResult,
                   handlerRegistered, eventVars, history, now, resp>>

\* TelegramForwarder.__init__: the client is built and stored in the global
Construct ==
    /\ pc = "construct"
    /\ telegram_client' = "client"
    /\ pc' = "clientStart"
    /\ UNCHANGED <<envKey, serverUp, connected, authorized, authAttempts,
                   source_entity, target_entity, target_channel_id, startResult,
                   handlerRegistered, eventVars, history, now, resp>>

\* start() hands back False
StartFails ==
    /\ startResult' = "False"
    /\ pc' = "afterStart"

\* start: await self.client.start(phone).  It returns with the session
\* connected, or raises with the session connected or not
ClientStart(outcome) ==
    /\ pc = "clientStart"
    /\ authAttempts' = authAttempts + 1
    /\ connected' = (outcome \in {"ok", "raisedConnected"})
    /\ IF outcome = "ok"
       THEN pc' = "checkAuth" /\ UNCHANGED startResult
       ELSE StartFails
    /\ UNCHANGED <<envKey, serverUp, telegram_client, authorized,
                   source_entity, target_entity, target_channel_id,
                   handlerRegistered, eventVars, history, now, resp>>

\* start: if await self.client.is_user_authorized() ... else return False
CheckAuthorized(answer) ==
    /\ pc = "checkAuth"
    /\ authorized' = answer
    /\ IF answer
       THEN pc' = "resolveSource" /\ UNCHANGED startResult
       ELSE StartFails
    /\ UNCHANGED <<envKey, serverUp, telegram_client, connected, authAttempts,
                   source_entity, target_entity, target_channel_id,
                   handlerRegistered, eventVars, history, now, resp>>

\* start going on to the target channel when the source channel is not
\* found
ResolveSource_GoingOn(found) ==
    /\ pc = "resolveSource"
    /\ source_entity' = IF found THEN "source" ELSE source_entity
    /\ pc' = "resolveTarget"
    /\ UNCHANGED <<envKey, serverUp, telegram_client, connected, authorized,
                   authAttempts, target_entity, target_channel_id, startResult,
                   handlerRegistered, eventVars, history, now, resp>>

\* start: self.source_entity = await self.client.get_entity(SOURCE_CHANNEL)
ResolveSource(found) ==
    /\ pc = "resolveSource"
    /\ IF found
       THEN source_entity' = "source" /\ pc' = "resolveTarget"
            /\ UNCHANGED startResult
       ELSE StartFails /\ UNCHANGED source_entity
    /\ UNCHANGED <<envKey, serverUp, telegram_client, connected, authorized,
                   authAttempts, target_entity, target_channel_id,
                   handlerRegistered, eventVars, history, now, resp>>

\* start: self.target_entity = await self.client.get_entity(TARGET_CHANNEL)
ResolveTarget(found, id) ==
    /\ pc = "resolveTarget"
    /\ IF found
       THEN target_entity' = SomeId(id) /\ pc' = "storeTarget"
            /\ UNCHANGED startResult
       ELSE StartFails /\ UNCHANGED target_entity
    /\ UNCHANGED <<envKey, serverUp, telegram_client, connected, authorized,
                   authAttempts, source_entity, target_channel_id,
                   handlerRegistered, eventVars, history, now, resp>>

\* start: target_channel_id = self.target_entity.id
StoreTargetId ==
    /\ pc = "storeTarget"
    /\ target_channel_id' = target_entity
    /\ pc' = "logTitles"
    /\ UNCHANGED <<envKey, serverUp, telegram_client, connected, authorized,
                   authAttempts, source_entity, target_entity, startResult,
                   handlerRegistered, eventVars, history, now, resp>>

\* start: the two log lines read .title of both entities, which an entity
\* that is not a channel does not have; then return True
LogTitles(hasTitles) ==
    /\ pc = "logTitles"
    /\ IF hasTitles
       THEN startResult' = "True" /\ pc' = "afterStart"
       ELSE StartFails
    /\ UNCHANGED <<envKey, serverUp, telegram_client, connected, authorized,
                   authAttempts, source_entity, target_entity, target_channel_id,
                   handlerRegistered, eventVars, history, now, resp>>

\* main with the test of start()'s result lost: setup_forwarding always runs
main_IgnoringStartResult ==
    /\ pc = "afterStart"
    /\ pc' = "setup"
    /\ UNCHANGED <<envKey, serverUp, telegram_client, connected, authorized,
                   authAttempts, source_entity, target_entity, target_channel_id,
                   startResult, handlerRegistered, eventVars, history, now, resp>>

\* main: if await forwarder.start(): ... else: log and return
main ==
    /\ pc = "afterStart"
    /\ IF startResult = "True"
       THEN pc' = "setup" /\ UNCHANGED serverUp
       ELSE ProcessExit
    /\ UNCHANGED <<envKey, telegram_client, connected, authorized, authAttempts,
                   source_entity, target_entity, target_channel_id, startResult,
                   handlerRegistered, eventVars, history, now, resp>>

\* setup_forwarding: the decorator registers forward_handler
setup_forwarding ==
    /\ pc = "setup"
    /\ handlerRegistered' = TRUE
    /\ pc' = "running"
    /\ UNCHANGED <<envKey, serverUp, telegram_client, connected, authorized,
                   authAttempts, source_entity, target_entity, target_channel_id,
                   startResult, eventVars, history, now, resp>>

\* the session drops while run_until_disconnected waits
Disconnect ==
    /\ pc = "running"
    /\ connected
    /\ connected' = FALSE
    /\ pc' = "disconnected"
    /\ UNCHANGED <<envKey, serverUp, telegram_client, authorized, authAttempts,
                   source_entity, target_entity, target_channel_id, startResult,
                   handlerRegistered, eventVars, history, now, resp>>

\* run_forever starting the client again after the session dropped
run_forever_Reconnecting(raised) ==
    /\ pc = "disconnected"
    /\ IF raised
       THEN pc' = "clientStart" /\ UNCHANGED serverUp
       ELSE ProcessExit
    /\ UNCHANGED <<envKey, telegram_client, connected, authorized, authAttempts,
                   source_entity, target_entity, target_channel_id, startResult,
                   handlerRegistered, eventVars, history, now, resp>>

\* run_forever: run_until_disconnected returns, and main with it, or it
\* raises and run_forever sleeps
run_forever(raised) ==
    /\ pc = "disconnected"
    /\ IF raised
       THEN pc' = "sleeping" /\ UNCHANGED serverUp
       ELSE ProcessExit
    /\ UNCHANGED <<envKey, telegram_client, connected, authorized, authAttempts,
                   source_entity, target_entity, target_channel_id, startResult,
                   handlerRegistered, eventVars, history, now, resp>>

\* run_forever: asyncio.sleep(10) is over; run_forever and main return
SleepOver ==
    /\ pc = "sleeping"
    /\ ProcessExit
    /\ UNCHANGED <<envKey, telegram_client, connected, authorized, authAttempts,
                   source_entity, target_entity, target_channel_id, startResult,
                   handlerRegistered, eventVars, history, now, resp>>

(***************************************************************************)
(* Events of the platform.                                                 *)
(***************************************************************************)
\* the id the platform gives the next message of the target channel
NextMessageId == Len(history) + 1

\* forward_handler retrying a failed forward once before it logs
forward_handler_Retrying(e, content, forwardOk) ==
    /\ attempts' = [attempts EXCEPT ![e] = @ + (IF forwardOk THEN 1 ELSE 2)]
    /\ IF forwardOk
       THEN /\ forwarded' = forwarded \cup {e}
            /\ history' =
                 <<Message(Len(history) + 1, now, content[1], content[2])>> \o history
            /\ UNCHANGED failLog
       ELSE /\ failLog' = failLog \cup {e}
            /\ UNCHANGED <<forwarded, history>>

\* forward_handler(event): one forward_messages call inside try/except;
\* a failure is logged and the handler returns
forward_handler(e, content, forwardOk) ==
    /\ attempts' = [attempts EXCEPT ![e] = @ + 1]
    /\ IF forwardOk
       THEN /\ forwarded' = forwarded \cup {e}
            /\ history' =
                 <<Message(NextMessageId, now, content[1], content[2])>> \o history
            /\ UNCHANGED failLog
       ELSE /\ failLog' = failLog \cup {e}
            /\ UNCHANGED <<forwarded, history>>

\* the handler registered for every chat: no chats=[...] filter
NewMessage_AnyChat(chat, content, forwardOk) ==
    /\ pc # "exited"
    /\ connected
    /\ Len(delivered) < MaxEvents
    /\ delivered' = Append(delivered, chat)
    /\ LET e == Len(delivered) + 1
       IN  IF handlerRegistered
           THEN forward_handler(e, content, forwardOk)
           ELSE UNCHANGED <<attempts, forwarded, failLog, history>>
    /\ UNCHANGED <<relayVars, now, resp>>

\* a new-message update reaches the connected client; it is dispatched to
\* forward_handler when the handler is registered and the chat is the
\* source channel (events.NewMessage(chats=[self.source_entity]))
NewMessage(chat, content, forwardOk) ==
    /\ pc # "exited"
    /\ connected
    /\ Len(delivered) < MaxEvents
    /\ delivered' = Append(delivered, chat)
    /\ LET e == Len(delivered) + 1
       IN  IF handlerRegistered /\ chat = "source"
           THEN forward_handler(e, content, forwardOk)
           ELSE UNCHANGED <<attempts, forwarded, failLog, history>>
    /\ UNCHANGED <<relayVars, now, resp>>

\* an hour passes
Tick ==
    /\ pc # "exited"
    /\ now < StartTime + MaxTicks
    /\ now' = now + 1
    /\ UNCHANGED <<relayVars, eventVars, history, resp>>

(***************************************************************************)
(* Spec: the whole process, from the start of main().                      *)
(***************************************************************************)
\* the content a forwarded event carries
EventContents == {<<TRUE, TextB>>}

\* what the target channel holds when the process starts: nothing, or one
\* message older than every window
Backlogs == {<<>>, <<Message(1, StartTime - MaxHours - 1, TRUE, TextA)>>}

Init ==
    /\ pc = "validate"
    /\ envKey \in {None, "secret"}
    /\ serverUp = FALSE
    /\ telegram_client = None
    /\ connected = FALSE
    /\ authorized = FALSE
    /\ authAttempts = 0
    /\ source_entity = None
    /\ target_entity = NoId
    /\ target_channel_id = NoId
    /\ startResult = None
    /\ handlerRegistered = FALSE
    /\ delivered = <<>>
    /\ attempts = [e \in 1..MaxEvents |-> 0]
    /\ forwarded = {}
    /\ failLog = {}
    /\ history \in Backlogs
    /\ now = StartTime
    /\ resp = NoResponse

Next ==
    \/ \E missing \in BOOLEAN : ValidateEnvironment(missing)
    \/ run_fastapi_server
    \/ Construct
    \/ \E outcome \in {"ok", "raisedConnected", "raisedDisconnected"} :
          ClientStart(outcome)
    \/ \E answer \in BOOLEAN : CheckAuthorized(answer)
    \/ \E found \in BOOLEAN : ResolveSource(found)
    \/ \E found \in BOOLEAN, id \in TargetIds : ResolveTarget(found, id)
    \/ StoreTargetId
    \/ \E hasTitles \in BOOLEAN : LogTitles(hasTitles)
    \/ main
    \/ setup_forwarding
    \/ Disconnect
    \/ \E raised \in BOOLEAN : run_forever(raised)
    \/ SleepOver
    \/ \E chat \in {"source", "other"}, content \in EventContents,
          forwardOk \in BOOLEAN : NewMessage(chat, content, forwardOk)
    \/ Tick
    \/ GetHealth
    \/ \E x_api_key \in Headers, hours \in Hours, readOk \in BOOLEAN :
          GetMessages(x_api_key, hours, readOk)
    \/ \E x_api_key \in Headers, hours \in Hours, readOk \in BOOLEAN :
          GetCombined(x_api_key, hours, readOk)

Spec == Init /\ [][Next]_vars


(***************************************************************************)
(* QuerySpec: the two retrieval endpoints over every target-channel        *)
(* history of the bounded family, asked of a Relay that is up.             *)
(***************************************************************************)
\* window sizes asked for in QuerySpec
Windows == 1..MaxWindow

\* the dates of the messages: from older than every window up to now
Dates == (StartTime - MaxWindow - 1)..StartTime

\* a history of n messages, newest first: ids n..1, the dates and contents
\* position by position
HistoryOf(n, dates, contents) ==
    [i \in 1..n |-> Message(n + 1 - i, dates[i], contents[i][1], contents[i][2])]

\* the platform numbers and dates messages in the order they are sent, so a
\* history read newest first never shows a date going up
NewestFirst(dates) ==
    \A i \in 1..(Len(dates) - 1) : dates[i] >= dates[i + 1]

ShortHistories ==
    UNION {
      {HistoryOf(n, dates, contents) :
          dates \in {d \in [1..n -> Dates] : NewestFirst(d)},
          contents \in [1..n -> Contents]}
      : n \in 0..MaxHistory}

\* histories around the cap: n messages of one date, the newest one with
\* text or without, the others with text
LongHistories ==
    {HistoryOf(n, [i \in 1..n |-> d],
               [i \in 1..n |-> IF i = 1 THEN c ELSE <<TRUE, TextA>>]) :
        n \in (Limit - 1)..(Limit + MaxExtra),
        d \in {StartTime - MaxWindow - 1, StartTime},
        c \in {<<TRUE, TextA>>, <<FALSE, TextEmpty>>}}

\* the state after a start-up that succeeded: the handler registered,
\* run_until_disconnected waiting
Serving ==
    /\ pc = "running"
    /\ envKey = None
    /\ serverUp = TRUE
    /\ telegram_client = "client"
    /\ connected = TRUE
    /\ authorized = TRUE
    /\ authAttempts = 1
    /\ source_entity = "source"
    /\ target_entity \in {SomeId(id) : id \in TargetIds}
    /\ target_channel_id = target_entity
    /\ startResult = "True"
    /\ handlerRegistered = TRUE
    /\ delivered = <<>>
    /\ attempts = [e \in 1..MaxEvents |-> 0]
    /\ forwarded = {}
    /\ failLog = {}
    /\ now = StartTime
    /\ resp = NoResponse

QueryInit == Serving /\ history \in ShortHistories

QueryNext ==
    \/ \E hours \in Windows, readOk \in BOOLEAN :
          GetMessages(N8N_API_KEY, hours, readOk)
    \/ \E hours \in Windows, readOk \in BOOLEAN :
          GetCombined(N8N_API_KEY, hours, readOk)

QuerySpec == QueryInit /\ [][QueryNext]_vars


(***************************************************************************)
(* CapSpec: the same two endpoints over histories around the cap.          *)
(***************************************************************************)
CapInit == Serving /\ history \in LongHistories

CapSpec == CapInit /\ [][QueryNext]_vars


(***************************************************************************)
(* Properties.                                                             *)
(***************************************************************************)
ProtectedEndpoints == {"messages", "combined"}

\* the session is connected and the target channel id is resolved
Ready == telegram_client # None /\ connected /\ ~TargetUnset

\* the step is a request that was answered
Answered == resp' # resp

\* C1: whenever the session is not connected or the target channel id is
\* unresolved, a request to either protected endpoint that carries the
\* right key is answered with 503.
C1_NotReadyIs503 ==
    [][(/\ Answered
        /\ resp'.endpoint \in ProtectedEndpoints
        /\ resp'.x_api_key = N8N_API_KEY
        /\ ~Ready)
       => resp'.status = 503]_vars

\* C2: with a key configured, a request to a protected endpoint whose key
\* header is missing or differs from the key gets 401, reads no history and
\* carries no message data.
C2_BadKeyIs401 ==
    (/\ envKey # None
     /\ resp.endpoint \in ProtectedEndpoints
     /\ resp.x_api_key # N8N_API_KEY)
    => (resp.status = 401 /\ resp.reads = 0 /\ resp.body = NoBody)

\* C3: with no key configured, a request to a protected endpoint that
\* carries no key header passes authentication: it is never refused for
\* lack of a key.
C3_OpenWithoutKey ==
    (/\ envKey = None
     /\ resp.endpoint \in ProtectedEndpoints
     /\ resp.x_api_key = None)
    => resp.status \notin {401, 422}

\* C4: after start() has failed (session, authorization or channel
\* resolution), the process has not exited and the HTTP server still
\* serves.
C4_ServiceSurvivesFailedStart ==
    startResult = "False" => (pc # "exited" /\ serverUp)

\* C5: the forward handler is registered only after the session is
\* authorized and both channels are resolved; once start() has failed the
\* handler is never registered, no forward is attempted and client.start()
\* is not called again.
C5_HandlerOnlyAfterStart ==
    /\ [](/\ handlerRegistered =>
               (/\ authorized
                /\ source_entity # None
                /\ target_entity # NoId
                /\ target_channel_id = target_entity
                /\ startResult = "True")
          /\ startResult = "False" =>
               (/\ ~handlerRegistered
                /\ forwarded = {}
                /\ \A e \in 1..MaxEvents : attempts[e] = 0)
          /\ authAttempts <= 1)
    /\ [][startResult = "False" =>
            (/\ startResult' = "False"
             /\ authAttempts' = authAttempts
             /\ ~handlerRegistered')]_vars

\* C5 witness: start() failed and an event of the source channel was
\* delivered to the still connected client.
C5_Witness ==
    /\ startResult = "False"
    /\ \E e \in 1..Len(delivered) : delivered[e] = "source"

\* a source-channel event is forwarded in the next step
ForwardsNext ==
    /\ NewMessage("source", <<TRUE, TextB>>, TRUE)
    /\ forwarded' # forwarded

\* C6: a failed forward is logged and the event dropped: no event is
\* attempted twice, the failure leaves the handler registered and the Relay
\* running, and a later source-channel event is still forwarded.
C6_ForwardFailureDropped ==
    /\ [](/\ \A e \in 1..MaxEvents : attempts[e] <= 1
          /\ \A e \in failLog : e \notin forwarded /\ attempts[e] = 1
          /\ failLog # {} => handlerRegistered
          /\ (/\ failLog # {}
              /\ pc = "running"
              /\ connected
              /\ Len(delivered) < MaxEvents) => ENABLED ForwardsNext)
    /\ [][failLog' # failLog =>
            (/\ pc = "running" /\ pc' = "running"
             /\ handlerRegistered'
             /\ connected'
             /\ history' = history
             /\ forwarded' = forwarded)]_vars

\* C6 witness: one event's forward failed and a later event was forwarded.
C6_Witness ==
    \E e1 \in failLog : \E e2 \in forwarded : e2 > e1


\* the places of s where sep starts
Occurrences(s, sep) ==
    {p \in 1..(Len(s) - Len(sep) + 1) : SubSeq(s, p, p + Len(sep) - 1) = sep}

\* sep in s
Contains(s, sep) == Occurrences(s, sep) # {}

RECURSIVE Split(_, _)
\* s.split(sep): cut at the leftmost occurrence, go on behind it
Split(s, sep) ==
    IF ~Contains(s, sep) THEN <<s>>
    ELSE LET occ == Occurrences(s, sep)
             p == CHOOSE x \in occ : \A y \in occ : x <= y
         IN  <<SubSeq(s, 1, p - 1)>>
               \o Split(SubSeq(s, p + Len(sep), Len(s)), sep)

CombinedSuccess == resp.endpoint = "combined" /\ resp.status = 200

ItemizedSuccess == resp.endpoint = "messages" /\ resp.status = 200

\* combined_text split on the separator gives message_count segments,
\* segment i being messages[i].text_with_link
SplitsBack ==
    LET segments == Split(resp.body.combined_text, Separator)
    IN  /\ Len(segments) = resp.body.message_count
        /\ segments = TextsWithLink(resp.body.messages)

\* C7 as stated: every success response of the combined endpoint splits
\* back into its messages, whatever their number and their texts.
C7_SplitsBackAlways == CombinedSuccess => SplitsBack

\* C7 amended: a success response of the combined endpoint with at least
\* one message, none of whose texts holds the separator, splits back into
\* message_count segments, segment i equal to messages[i].text_with_link.
C7_SplitsBackWithoutSeparator ==
    (/\ CombinedSuccess
     /\ resp.body.message_count >= 1
     /\ \A i \in 1..Len(resp.body.messages) :
           ~Contains(resp.body.messages[i].text, Separator))
    => SplitsBack

\* C7 witness: a combined response of two messages, neither holding the
\* separator, one of them trimmed.
C7_Witness ==
    /\ CombinedSuccess
    /\ resp.body.message_count = 2
    /\ \A i \in 1..2 : ~Contains(resp.body.messages[i].text, Separator)
    /\ \E m \in {history[i] : i \in 1..Len(history)} : m.text = TextPadded

\* C8: every message of an itemized success response is dated at or after
\* the request time less the window.
C8_NothingOlderThanWindow ==
    ItemizedSuccess =>
        \A i \in 1..Len(resp.body.messages) :
            resp.body.messages[i].date >= now - resp.hours

\* the message ids of a response body
IdsOf(body) == {body.messages[i].message_id : i \in 1..Len(body.messages)}

\* C9: with the cap not reached, the ids returned for a window are among
\* the ids returned for every larger window, over the same history at the
\* same time.
C9_LargerWindowSuperset ==
    ItemizedSuccess =>
        \A h2 \in Windows :
            (h2 > resp.hours /\ Len(history) < Limit) =>
                IdsOf(resp.body) \subseteq IdsOf(get_recent_messages(h2, TRUE).body)

\* the ids of the messages with text dated within the window, newest first
InWindowWithText(hours) ==
    SelectSeq(history, LAMBDA m : m.date >= now - hours /\ HasVisibleText(m))

\* C10: a success response holds at most 200 messages, and when more than
\* 200 messages with text lie in the window it holds exactly the 200 most
\* recent of them.
C10_CapKeepsMostRecent ==
    (resp.endpoint \in ProtectedEndpoints /\ resp.status = 200) =>
        LET inWindow == InWindowWithText(resp.hours)
        IN  /\ Len(resp.body.messages) <= Limit
            /\ Len(inWindow) > Limit =>
                 /\ Len(resp.body.messages) = Limit
                 /\ \A i \in 1..Limit :
                       resp.body.messages[i].message_id = inWindow[i].id


(***************************************************************************)
(* OrderSpec: the same two endpoints over histories whose dates come in    *)
(* any order, as a history read that does not deliver newest first would   *)
(* hand them over.                                                         *)
(***************************************************************************)
AnyOrderHistories ==
    UNION {
      {HistoryOf(n, dates, contents) :
          dates \in [1..n -> Dates],
          contents \in [1..n -> {<<TRUE, TextA>>, <<TRUE, TextBlank>>}]}
      : n \in 0..MaxHistory}

OrderInit == Serving /\ history \in AnyOrderHistories

OrderSpec == OrderInit /\ [][QueryNext]_vars

\* where the message with this id stands in the history read
PlaceInHistory(id) == CHOOSE i \in 1..Len(history) : history[i].id = id

\* C11: in every success response of either protected endpoint the dates
\* of messages never go up, whatever order the history read had, and
\* messages of one date stand in the order the history read gave them.
C11_NewestFirstStable ==
    (resp.endpoint \in ProtectedEndpoints /\ resp.status = 200) =>
        LET ms == resp.body.messages
        IN  /\ \A i \in 1..(Len(ms) - 1) : ms[i].date >= ms[i + 1].date
            /\ \A i \in 1..Len(ms) : \A j \in (i + 1)..Len(ms) :
                  ms[i].date = ms[j].date =>
                      PlaceInHistory(ms[i].message_id)
                          < PlaceInHistory(ms[j].message_id)

\* C11 witness: the history read gave an older message before a newer one,
\* and the response holds both, the newer one first.
C11_Witness ==
    /\ resp.endpoint \in ProtectedEndpoints /\ resp.status = 200
    /\ Len(resp.body.messages) >= 2
    /\ \E i \in 1..(Len(history) - 1) : history[i].date < history[i + 1].date
    /\ \E i \in 1..(Len(resp.body.messages) - 1) :
          resp.body.messages[i].date > resp.body.messages[i + 1].date

\* the message of the history with this id
HistoryMessage(id) == history[PlaceInHistory(id)]

\* C12: no message whose text is absent, empty or only whitespace is in the
\* messages of a success response or adds a segment to combined_text, and
\* every text returned is the message's text trimmed, with no whitespace at
\* either end.
C12_NoBlankTextTrimmed ==
    (resp.endpoint \in ProtectedEndpoints /\ resp.status = 200) =>
        LET ms == resp.body.messages
        IN  /\ \A i \in 1..Len(ms) :
                  LET m == HistoryMessage(ms[i].message_id)
                  IN  /\ m.hasText
                      /\ ms[i].text # <<>>
                      /\ Head(ms[i].text) \notin Whitespace
                      /\ ms[i].text[Len(ms[i].text)] \notin Whitespace
                      /\ ms[i].text = Strip(m.text)
            /\ resp.endpoint = "combined" =>
                  resp.body.combined_text = Join(Separator, TextsWithLink(ms))

\* C12 witness: the history read held a padded message and one of
\* whitespace; the combined response holds the first alone, trimmed.
C12_Witness ==
    /\ resp.endpoint = "combined" /\ resp.status = 200
    /\ resp.body.message_count = 1
    /\ resp.body.messages[1].text = TextA
    /\ Len(history) = 2
    /\ \E i, j \in 1..2 :
          /\ history[i].text = TextPadded
          /\ history[j].text = TextBlank
          /\ history[j].date < now - resp.hours

\* the request of the step reached the history read and the read raised
ReadRaised ==
    \E hours \in Windows :
        \/ GetMessages(N8N_API_KEY, hours, FALSE)
        \/ GetCombined(N8N_API_KEY, hours, FALSE)

\* C13: when the history read raises, the request is answered with 500 and
\* a detail, with no payload, after exactly one read.
C13_ReadFailureIs500 ==
    [][(Ready /\ ReadRaised) =>
          (/\ resp'.status = 500
           /\ resp'.detail # ""
           /\ resp'.body = NoBody
           /\ resp'.reads = 1)]_vars

\* C13 witness: a combined request answered 500 after one read.
C13_Witness ==
    resp.endpoint = "combined" /\ resp.status = 500 /\ resp.reads = 1


\* the facts of the Relay a health body reports: its keys other than the
\* status string and the timestamp
ReportedFacts(body) == body.keys \ {"status", "timestamp"}

\* C14: /health answers without a key in every state, and its body reports
\* three facts that equal the current state: session connected, target
\* channel resolved, forward subscription active.
C14_HealthReportsThreeFacts ==
    [][(Answered /\ resp'.endpoint = "health") =>
          (/\ resp'.status = 200
           /\ resp'.body.telegram_connected = (telegram_client # None /\ connected)
           /\ Cardinality(ReportedFacts(resp'.body)) >= 3)]_vars

\* the step is a request to the combined endpoint with the right key
CombinedAnswers(hours, readOk) == GetCombined(N8N_API_KEY, hours, readOk)

\* C15: over the same history, readiness and window, and the same outcome
\* of the history read, the combined endpoint returns the messages and the
\* message_count of the itemized endpoint, fails exactly when it fails, and
\* reads the history no more often than it does.
C15_CombinedAgreesWithItemized ==
    [][\A hours \in Hours, readOk \in BOOLEAN :
          CombinedAnswers(hours, readOk) =>
              LET itemized == get_recent_messages(hours, readOk)
              IN  /\ (resp'.status = 200) <=> (itemized.status = 200)
                  /\ resp'.body.messages = itemized.body.messages
                  /\ resp'.body.message_count = itemized.body.message_count
                  /\ resp'.body.message_count = Len(resp'.body.messages)
                  /\ resp'.reads = itemized.reads]_vars

\* C15 witness: a combined success holding a message, and so the itemized
\* list.
C15_Witness ==
    /\ resp.endpoint = "combined" /\ resp.status = 200
    /\ resp.body.message_count >= 1

\* C16: the link of every returned message is https://t.me/c/ followed by
\* the target channel's numeric id (the id without the -100 prefix, which
\* is what the entity's id is), "/", and the entry's message_id.
C16_LinkNamesChannelAndMessage ==
    (resp.endpoint \in ProtectedEndpoints /\ resp.status = 200) =>
        \A i \in 1..Len(resp.body.messages) :
            resp.body.messages[i].link =
                LinkPrefix \o IntToStr(target_channel_id[1]) \o <<"/">>
                    \o IntToStr(resp.body.messages[i].message_id)


\* the step delivers an event
Delivers == delivered' # delivered

\* C17: with the handler registered, an event of the source channel causes
\* exactly one forward attempt, of its message, to the target channel; an
\* event of another chat causes none; no event is forwarded twice.
C17_OneAttemptPerSourceEvent ==
    /\ [](/\ \A e \in 1..MaxEvents : attempts[e] <= 1
          /\ \A e \in 1..MaxEvents :
                (e > Len(delivered) \/ delivered[e] # "source") => attempts[e] = 0
          /\ \A e \in forwarded : attempts[e] = 1 /\ e \notin failLog)
    /\ [][Delivers =>
            LET e == Len(delivered')
                handled == handlerRegistered /\ delivered'[e] = "source"
            IN  /\ e = Len(delivered) + 1
                /\ attempts'[e] = IF handled THEN 1 ELSE 0
                /\ \A f \in 1..MaxEvents : f # e => attempts'[f] = attempts[f]
                /\ e \in forwarded' =>
                     /\ handled
                     /\ Len(history') = Len(history) + 1
                     /\ Head(history').text = TextB
                     /\ Tail(history') = history
                /\ e \notin forwarded' => history' = history]_vars

\* C17 witness: an event of another chat and one of the source channel were
\* delivered; the second was forwarded, the first not attempted.
C17_Witness ==
    \E e1, e2 \in 1..Len(delivered) :
        /\ delivered[e1] = "other" /\ attempts[e1] = 0
        /\ delivered[e2] = "source" /\ e2 \in forwarded

\* C18: a protected endpoint answers with a success only after the session
\* is authorized and both channels are resolved; the shared target channel
\* id is written once, at that point, and never changes afterwards; a
\* source channel that does not resolve leaves it unset.
C18_TargetIdWrittenOnce ==
    /\ [](/\ source_entity = None => target_channel_id = NoId
          /\ target_channel_id # NoId =>
               (authorized /\ target_channel_id = target_entity))
    /\ [][/\ (Answered /\ resp'.endpoint \in ProtectedEndpoints
                       /\ resp'.status = 200) =>
               (/\ authorized
                /\ source_entity # None
                /\ target_entity # NoId)
          /\ target_channel_id # NoId =>
               target_channel_id' = target_channel_id]_vars

\* C18 witness: a protected endpoint answered with a success.
C18_Witness ==
    resp.endpoint \in ProtectedEndpoints /\ resp.status = 200

\* a request can still be followed by a forward
CanStillForward ==
    (/\ pc = "running"
     /\ connected
     /\ handlerRegistered
     /\ Len(delivered) < MaxEvents) => ENABLED ForwardsNext

\* C19: no request, whatever its answer, changes the client handle, the
\* target channel id, the handler registration or the Relay's state, or
\* causes a forward attempt; a failing request does not stop later events
\* from being forwarded.
C19_RequestsLeaveRelayAlone ==
    /\ [][Answered => UNCHANGED <<relayVars, eventVars, history, now>>]_vars
    /\ [](resp.status \in {401, 422, 500, 503} => CanStillForward)

\* C19 witness: a request failed with 500 and a later event was forwarded.
C19_Witness ==
    /\ resp.status = 500
    /\ resp.reads = 1
    /\ \E e \in forwarded : history[1].date >= StartTime /\ e = Len(delivered)
    /\ pc = "running"

\* the session of a started Relay has dropped
Dropped == pc \in {"disconnected", "sleeping", "exited"} /\ startResult = "True"

\* C20: once the session has dropped, the Relay never starts the client
\* again, resolves no channel, registers nothing and forwards no event;
\* run_forever returns, after at most one sleep, and main with it.
C20_NoReconnect ==
    /\ [](/\ Dropped => ~connected
          /\ pc = "disconnected" => ENABLED (\E raised \in BOOLEAN : run_forever(raised))
          /\ pc = "sleeping" => ENABLED SleepOver)
    /\ [][Dropped =>
            (/\ Dropped'
             /\ UNCHANGED <<authAttempts, authorized, source_entity, target_entity,
                            target_channel_id, handlerRegistered, eventVars,
                            history, connected>>
             /\ pc = "sleeping" => pc' \in {"sleeping", "exited"}
             /\ pc = "exited" => pc' = "exited")]_vars

\* C20 witness: run_until_disconnected raised, run_forever slept, and the
\* process is gone.
C20_Witness ==
    /\ pc = "exited"
    /\ startResult = "True"
    /\ forwarded # {}

=============================================================================
